---- MODULE Spec2Model ----
(***************************************************************************)
(* valve/vdf.py: the VDF (Valve KeyValues) decoder, its transcluders and   *)
(* the load/loads/dump/dumps entry points.                                 *)
(*                                                                         *)
(* Text is a sequence of one-character strings.  A decoder is a record;    *)
(* the Python objects it builds live in a heap (a sequence of ordered      *)
(* mappings addressed by index) so that the references held by _stack and  *)
(* the references stored as values are the same kind of thing, as in the   *)
(* source.                                                                 *)
(***************************************************************************)
EXTENDS Integers, Sequences, FiniteSets, TLC

\* ------------------------------------------------------------ characters
DQ == "\""
BS == "\\"
LF == "\n"
TAB == "\t"
SP == " "
OB == "{"
CB == "}"
SL == "/"

WSP == {SP, TAB}

\* Python's None, as a value of the same shape as a key (no key is one
\* four-letter character).
None == <<"None">>

\* ------------------------------------------------------------ dict
\* A Python dict (3.7+: insertion ordered) is a sequence of entries.
HasKey(m, k) == \E i \in 1..Len(m) : m[i].k = k

IndexOf(m, k) == CHOOSE i \in 1..Len(m) : m[i].k = k

\* m[k] = v
SetItem(m, k, v) ==
    IF HasKey(m, k)
    THEN [m EXCEPT ![IndexOf(m, k)] = [k |-> k, v |-> v]]
    ELSE Append(m, [k |-> k, v |-> v])

\* the two kinds of value a mapping holds
Scalar(s) == [tag |-> "scalar", str |-> s, ref |-> 0]
Object(r) == [tag |-> "object", str |-> <<>>, ref |-> r]

\* ------------------------------------------------------------ errors
\* The exception classes.  Both derive from Exception directly.
VDFError == "VDFError"
VDFTransclusionError == "VDFTransclusionError"
NoError == "NoError"

\* class VDFError(Exception), class VDFTransclusionError(Exception)
Base(cls) ==
    CASE cls = VDFError -> "Exception"
      [] cls = VDFTransclusionError -> "Exception"
      [] OTHER -> "object"

\* except <handler>: catches an exception of class <raised>
Catches(handler, raised) ==
    \/ handler = raised
    \/ handler = Base(raised)
    \/ handler = Base(Base(raised))

\* ------------------------------------------------------------ transcluders
\* A transcluder is a record: its class and, for VDFTestTranscluder, its
\* _documents dict (name -> document text).
VDFIgnoreTranscluder == [kind |-> "ignore", _documents |-> <<>>]

VDFDisabledTranscluder == [kind |-> "disabled", _documents |-> <<>>]

VDFFileSystemTranscluder == [kind |-> "filesystem", _documents |-> <<>>]

VDFTestTranscluder(documents) == [kind |-> "test", _documents |-> documents]

\* what iterating transclude(name) gives: the fragments, or the exception
Fragments(frags) == [exc |-> NoError, frags |-> frags]
Raises(exc) == [exc |-> exc, frags |-> <<>>]

\* transclude with "yield name" for "yield ''"
VDFIgnoreTranscluder_transclude_name(name) == Fragments(<< name >>)

VDFIgnoreTranscluder_transclude(name) == Fragments(<< <<>> >>)

\* transclude raising the format error instead
VDFDisabledTranscluder_transclude_format(name) == Raises(VDFError)

VDFDisabledTranscluder_transclude(name) == Raises(VDFTransclusionError)

VDFFileSystemTranscluder_transclude(name) == Fragments(<< <<>> >>)

\* what register / unregister leave behind: the transcluder, and the
\* exception raised if any
Done(self) == [self |-> self, exc |-> NoError]
LookupError(self) == [self |-> self, exc |-> "LookupError"]

\* del d[k]
DelItem(m, k) == SelectSeq(m, LAMBDA e : e.k # k)

\* register that stores the document before raising
VDFTestTranscluder_register_stored(self, name, document) ==
    IF HasKey(self._documents, name)
    THEN LookupError([self EXCEPT !._documents = SetItem(@, name, document)])
    ELSE Done([self EXCEPT !._documents = SetItem(@, name, document)])

VDFTestTranscluder_register(self, name, document) ==
    IF HasKey(self._documents, name)
    THEN LookupError(self)
    ELSE Done([self EXCEPT !._documents = SetItem(@, name, document)])

VDFTestTranscluder_unregister(self, name) ==
    IF ~HasKey(self._documents, name)
    THEN LookupError(self)
    ELSE Done([self EXCEPT !._documents = DelItem(@, name)])

\* is prefix a prefix of text
StartsWith(text, prefix) ==
    Len(prefix) <= Len(text) /\ SubSeq(text, 1, Len(prefix)) = prefix

\* transclude that takes the first document whose name starts with name
VDFTestTranscluder_transclude_prefix(self, name) ==
    IF \A i \in 1..Len(self._documents) : ~StartsWith(self._documents[i].k, name)
    THEN Raises(VDFTransclusionError)
    ELSE LET i == CHOOSE i \in 1..Len(self._documents) :
                    /\ StartsWith(self._documents[i].k, name)
                    /\ \A j \in 1..(i - 1) : ~StartsWith(self._documents[j].k, name)
         IN  Fragments(<< self._documents[i].v >>)

\* transclude with "yield name" for "yield self._documents[name]"
VDFTestTranscluder_transclude_name(self, name) ==
    IF ~HasKey(self._documents, name)
    THEN Raises(VDFTransclusionError)
    ELSE Fragments(<< name >>)

VDFTestTranscluder_transclude(self, name) ==
    IF ~HasKey(self._documents, name)
    THEN Raises(VDFTransclusionError)
    ELSE Fragments(<< self._documents[IndexOf(self._documents, name)].v >>)

\* dynamic dispatch of transcluder.transclude(name)
transclude(self, name) ==
    CASE self.kind = "ignore" -> VDFIgnoreTranscluder_transclude(name)
      [] self.kind = "disabled" -> VDFDisabledTranscluder_transclude(name)
      [] self.kind = "filesystem" -> VDFFileSystemTranscluder_transclude(name)
      [] OTHER -> VDFTestTranscluder_transclude(self, name)

\* ------------------------------------------------------------ decoder
ExpectKeyOrClose == "ExpectKeyOrClose"
ExpectValueOrBlock == "ExpectValueOrBlock"

\* VDFObjectDecoder(transcluder): object, _key and _stack as __init__ sets
\* them; the parser's own fields in their initial state.
\*   heap          the dicts created so far; heap[object] is self.object
\*   state, lex, buf, dir, name   parser state, tokenizer mode, partial
\*                 token, progress through a #base directive and its name
\*   splice        text a directive has just put in front of the input
\*   err           the exception a feed or complete call has raised
\*   events        the on_* calls made so far, in order
\* __init__ with self._stack = [] for self._stack = [self.object]
VDFObjectDecoder_unrooted(transcluder) ==
    [ heap |-> << <<>> >>,
      object |-> 1,
      _key |-> None,
      _stack |-> <<>>,
      transcluder |-> transcluder,
      state |-> ExpectKeyOrClose,
      lex |-> "idle",
      buf |-> <<>>,
      dir |-> "none",
      name |-> <<>>,
      splice |-> <<>>,
      transclusions |-> 0,
      completed |-> FALSE,
      err |-> NoError,
      events |-> <<>> ]

VDFObjectDecoder(transcluder) ==
    [ heap |-> << <<>> >>,
      object |-> 1,
      _key |-> None,
      _stack |-> <<1>>,
      transcluder |-> transcluder,
      state |-> ExpectKeyOrClose,
      lex |-> "idle",
      buf |-> <<>>,
      dir |-> "none",
      name |-> <<>>,
      splice |-> <<>>,
      transclusions |-> 0,
      completed |-> FALSE,
      err |-> NoError,
      events |-> <<>> ]

\* on_object_enter with self.object[self._key] for self._stack[-1][self._key]
on_object_enter_root(self) ==
    IF Len(self._stack) = 0 THEN [self EXCEPT !.err = "IndexError"] ELSE
    LET object_ == Len(self.heap) + 1
    IN  [self EXCEPT
            !.heap = Append([@ EXCEPT ![self.object] =
                                SetItem(@, self._key, Object(object_))], <<>>),
            !._stack = Append(@, object_),
            !._key = None]

\* on_object_enter without self._stack[-1][self._key] = object_
on_object_enter_detached(self) ==
    IF Len(self._stack) = 0 THEN [self EXCEPT !.err = "IndexError"] ELSE
    LET object_ == Len(self.heap) + 1
    IN  [self EXCEPT
            !.heap = Append(@, <<>>),
            !._stack = Append(@, object_),
            !._key = None]

\* on_object_enter without self._stack.append(object_)
on_object_enter_unpushed(self) ==
    IF Len(self._stack) = 0 THEN [self EXCEPT !.err = "IndexError"] ELSE
    LET top == self._stack[Len(self._stack)]
        object_ == Len(self.heap) + 1
    IN  [self EXCEPT
            !.heap = Append([@ EXCEPT ![top] = SetItem(@, self._key, Object(object_))], <<>>),
            !._key = None]

\* self._stack[-1] and self._stack.pop() raise IndexError on an empty list
on_object_enter(self) ==
    IF Len(self._stack) = 0 THEN [self EXCEPT !.err = "IndexError"] ELSE
    LET top == self._stack[Len(self._stack)]
        object_ == Len(self.heap) + 1
    IN  [self EXCEPT
            !.heap = Append([@ EXCEPT ![top] = SetItem(@, self._key, Object(object_))], <<>>),
            !._stack = Append(@, object_),
            !._key = None]

\* on_object_exit with self._stack.pop(0): the bottom entry goes, not the top
on_object_exit_bottom(self) ==
    IF Len(self._stack) = 0 THEN [self EXCEPT !.err = "IndexError"] ELSE
    [self EXCEPT !._stack = Tail(@)]

on_object_exit(self) ==
    IF Len(self._stack) = 0 THEN [self EXCEPT !.err = "IndexError"] ELSE
    [self EXCEPT !._stack = SubSeq(@, 1, Len(@) - 1)]

on_key(self, key) == [self EXCEPT !._key = key]

\* the dict's d[k] = v as "del d[k]; d[k] = v": a key written again moves to
\* the end
on_value_reinserted(self, value) ==
    IF Len(self._stack) = 0 THEN [self EXCEPT !.err = "IndexError"] ELSE
    LET top == self._stack[Len(self._stack)]
        kept == SelectSeq(self.heap[top], LAMBDA e : e.k # self._key)
    IN  [self EXCEPT
            !.heap[top] = Append(kept, [k |-> self._key, v |-> Scalar(value)]),
            !._key = None]

\* on_value without self._key = None
on_value_keyed(self, value) ==
    IF Len(self._stack) = 0 THEN [self EXCEPT !.err = "IndexError"] ELSE
    LET top == self._stack[Len(self._stack)]
    IN  [self EXCEPT !.heap[top] = SetItem(@, self._key, Scalar(value))]

on_value(self, value) ==
    IF Len(self._stack) = 0 THEN [self EXCEPT !.err = "IndexError"] ELSE
    LET top == self._stack[Len(self._stack)]
    IN  [self EXCEPT
            !.heap[top] = SetItem(@, self._key, Scalar(value)),
            !._key = None]

\* the document a reference denotes, as a value: entries in order, each a
\* scalar or the nested document
ScalarEntry(key, value) ==
    [k |-> key, tag |-> "scalar", str |-> value, items |-> <<>>]

ObjectEntry(key, items) ==
    [k |-> key, tag |-> "object", str |-> <<>>, items |-> items]

RECURSIVE Tree(_, _)
Tree(heap, ref) ==
    [i \in 1..Len(heap[ref]) |->
        LET e == heap[ref][i]
        IN  IF e.v.tag = "scalar"
            THEN ScalarEntry(e.k, e.v.str)
            ELSE ObjectEntry(e.k, Tree(heap, e.v.ref))]

\* ------------------------------------------------------------ parser
\* VDFDecoder.feed and VDFDecoder.complete (the tokenizer and the parser
\* state machine of the design's sections 4.1 to 4.3).

\* the most #base directives one decode resolves before the model gives up
\* on it (a cycle of directives never ends otherwise)
MaxTransclusions == 3

Unbounded == "Unbounded"

BASE == <<"#", "b", "a", "s", "e">>

RECURSIVE Concat(_)
Concat(frags) == IF frags = <<>> THEN <<>> ELSE Head(frags) \o Concat(Tail(frags))

Fail(self, exc) == [self EXCEPT !.err = exc]

\* the parser's calls of the four handlers, in the order made
EmitKey(self, key) ==
    [on_key(self, key) EXCEPT !.events = Append(@, <<"key", key>>)]

EmitValue(self, value) ==
    [on_value(self, value) EXCEPT !.events = Append(@, <<"value", value>>)]

EmitEnter(self) ==
    [on_object_enter(self) EXCEPT !.events = Append(@, <<"enter">>)]

EmitExit(self) ==
    [on_object_exit(self) EXCEPT !.events = Append(@, <<"exit">>)]

\* \\ -> \, \" -> ", \t -> tab, \n -> line feed
IsEscape(c) == c \in {BS, DQ, "t", "n"}

Unescape(c) ==
    CASE c = "t" -> TAB
      [] c = "n" -> LF
      [] OTHER -> c

\* a complete token, quoted or not
Token(self, text, quoted) ==
    CASE self.dir = "name" ->
            IF quoted
            THEN [self EXCEPT !.dir = "end", !.name = text]
            ELSE Fail(self, VDFError)
      [] self.dir = "none" /\ self.state = ExpectKeyOrClose ->
            IF text = BASE
            THEN [self EXCEPT !.dir = IF quoted THEN "ws" ELSE "name"]
            ELSE [EmitKey(self, text) EXCEPT !.state = ExpectValueOrBlock]
      [] OTHER ->
            [EmitValue(self, text) EXCEPT !.state = ExpectKeyOrClose]

\* ExpectKeyOrClose + CloseBrace: pop, unless only the root is left
CloseBrace(self) ==
    IF self.state = ExpectKeyOrClose /\ Len(self._stack) > 1
    THEN EmitExit(self)
    ELSE Fail(self, VDFError)

\* an open brace taken in either state
OpenBrace_anywhere(self) ==
    [EmitEnter(self) EXCEPT !.state = ExpectKeyOrClose]

\* ExpectValueOrBlock + OpenBrace
OpenBrace(self) ==
    IF self.state = ExpectValueOrBlock
    THEN [EmitEnter(self) EXCEPT !.state = ExpectKeyOrClose]
    ELSE Fail(self, VDFError)

\* the line break that ends a directive: ask the transcluder, put what it
\* gives in front of the rest of the input
Resolve(self) ==
    LET r == transclude(self.transcluder, self.name)
    IN  IF r.exc # NoError THEN Fail(self, r.exc)
        ELSE IF self.transclusions >= MaxTransclusions THEN Fail(self, Unbounded)
        ELSE [self EXCEPT !.dir = "none", !.name = <<>>,
                          !.splice = Concat(r.frags),
                          !.transclusions = @ + 1]

\* one character read between tokens
Idle(self, c) ==
    CASE self.err # NoError -> self
      [] self.dir = "ws" ->
            IF c \in WSP THEN [self EXCEPT !.dir = "name"] ELSE Fail(self, VDFError)
      [] self.dir = "name" ->
            IF c \in WSP THEN self
            ELSE IF c = DQ THEN [self EXCEPT !.lex = "quoted", !.buf = <<>>]
            ELSE Fail(self, VDFError)
      [] self.dir = "end" ->
            IF c \in WSP THEN self
            ELSE IF c = LF THEN Resolve(self)
            ELSE Fail(self, VDFError)
      [] c \in WSP \cup {LF} -> self
      [] c = DQ -> [self EXCEPT !.lex = "quoted", !.buf = <<>>]
      [] c = SL -> [self EXCEPT !.lex = "comment"]
      [] c = OB -> OpenBrace(self)
      [] c = CB -> CloseBrace(self)
      [] c = BS -> [self EXCEPT !.lex = "unquoted_escape", !.buf = <<>>]
      [] OTHER -> [self EXCEPT !.lex = "unquoted", !.buf = <<c>>]

\* one character, in whatever the tokenizer is in the middle of
Step(self, c) ==
    CASE self.err # NoError -> self
      [] self.lex = "idle" -> Idle(self, c)
      [] self.lex = "comment" ->
            IF c = LF THEN [self EXCEPT !.lex = "idle"] ELSE self
      [] self.lex = "quoted" ->
            IF c = DQ
            THEN Token([self EXCEPT !.lex = "idle", !.buf = <<>>], self.buf, TRUE)
            ELSE IF c = BS THEN [self EXCEPT !.lex = "quoted_escape"]
            ELSE [self EXCEPT !.buf = Append(@, c)]
      [] self.lex = "quoted_escape" ->
            IF IsEscape(c)
            THEN [self EXCEPT !.lex = "quoted", !.buf = Append(@, Unescape(c))]
            ELSE Fail(self, VDFError)
      [] self.lex = "unquoted_escape" ->
            IF IsEscape(c)
            THEN [self EXCEPT !.lex = "unquoted", !.buf = Append(@, Unescape(c))]
            ELSE Fail(self, VDFError)
      [] OTHER ->
            IF c \in WSP \cup {LF, OB, CB, SL}
            THEN Idle(Token([self EXCEPT !.lex = "idle", !.buf = <<>>], self.buf, FALSE), c)
            ELSE IF c = DQ THEN Fail(self, VDFError)
            ELSE IF c = BS THEN [self EXCEPT !.lex = "unquoted_escape"]
            ELSE [self EXCEPT !.buf = Append(@, c)]

\* the characters of the input in order; text a directive brought in is read
\* before the characters that follow the directive
RECURSIVE Consume(_, _)
Consume(self, text) ==
    IF text = <<>> \/ self.err # NoError THEN self
    ELSE LET next == Step(self, Head(text))
         IN  Consume([next EXCEPT !.splice = <<>>], next.splice \o Tail(text))

\* feed as it would be if the tokenizer kept nothing between calls: the
\* token a chunk ends in is dropped
feed_unbuffered(self, fragment) ==
    LET after == Consume(self, fragment)
    IN  IF after.err # NoError THEN after
        ELSE [after EXCEPT !.lex = "idle", !.buf = <<>>]

\* feed as it would be if a failure were forgotten by the next call
feed_resumed(self, fragment) ==
    Consume([self EXCEPT !.err = NoError], fragment)

\* decoder.feed(fragment); a decoder that has failed stays failed
feed(self, fragment) == Consume(self, fragment)

\* decoder.complete()
complete(self) ==
    IF self.err # NoError THEN self
    ELSE IF /\ self.state = ExpectKeyOrClose
            /\ Len(self._stack) = 1
            /\ self.lex = "idle"
            /\ self.dir = "none"
    THEN [self EXCEPT !.completed = TRUE]
    ELSE Fail(self, VDFError)

\* ------------------------------------------------------------ load, loads
\* readable.read(4096)
ReadSize == 4096

Min(a, b) == IF a < b THEN a ELSE b

\* for chunk in iter(lambda: readable.read(4096), ''): decoder.feed(chunk)
RECURSIVE FeedChunks(_, _)
FeedChunks(decoder, readable) ==
    IF readable = <<>> \/ decoder.err # NoError THEN decoder
    ELSE LET n == Min(ReadSize, Len(readable))
         IN  FeedChunks(feed(decoder, SubSeq(readable, 1, n)),
                        SubSeq(readable, n + 1, Len(readable)))

\* with ... as decoder: __enter__ gives the decoder itself
VDFDecoder_enter(self) == self

\* __exit__ that does nothing
VDFDecoder_exit_pass(self) == self

\* leaving the with block: complete(), unless the block raised
VDFDecoder_exit(self) == IF self.err # NoError THEN self ELSE complete(self)

\* what a call gives back: the value returned, or the exception raised
Returns(value) == [exc |-> NoError, value |-> value]
Raised(exc) == [exc |-> exc, value |-> <<>>]

load(readable, transcluder) ==
    LET decoder == VDFDecoder_exit(
            FeedChunks(VDFDecoder_enter(VDFObjectDecoder(transcluder)), readable))
    IN  IF decoder.err # NoError
        THEN Raised(decoder.err)
        ELSE Returns(Tree(decoder.heap, decoder.object))

\* return load(io.StringIO(vdf)): the transcluder argument is not passed on,
\* so load runs with its default
loads(vdf, transcluder) == load(vdf, VDFDisabledTranscluder)

\* ------------------------------------------------------------ dump, dumps
\* The encoder of the design's section 4.5.
NeedsQuoting(text) ==
    \E i \in 1..Len(text) : text[i] \in {SP, TAB, LF, OB, CB, DQ}

RECURSIVE Escaped(_)
Escaped(text) ==
    IF text = <<>> THEN <<>>
    ELSE LET c == Head(text)
         IN  (CASE c = BS -> <<BS, BS>>
                [] c = DQ -> <<BS, DQ>>
                [] c = TAB -> <<BS, "t">>
                [] c = LF -> <<BS, "n">>
                [] OTHER -> <<c>>) \o Escaped(Tail(text))

EncodeToken(text) ==
    IF NeedsQuoting(text) THEN <<DQ>> \o Escaped(text) \o <<DQ>> ELSE text

Indent(depth) == [i \in 1..depth |-> TAB]

RECURSIVE Encode(_, _)
Encode(object_, depth) ==
    IF object_ = <<>> THEN <<>>
    ELSE LET e == Head(object_)
         IN  Indent(depth) \o EncodeToken(e.k) \o
             (IF e.tag = "scalar"
              THEN <<SP>> \o EncodeToken(e.str) \o <<LF>>
              ELSE <<SP, OB, LF>> \o Encode(e.items, depth + 1)
                   \o Indent(depth) \o <<CB, LF>>)
             \o Encode(Tail(object_), depth)

\* dump(object_, writable): what it writes
dump(object_) == Encode(object_, 0)

\* buffer_ = io.StringIO(); dump(object_, buffer_); return buffer_.getvalue()
dumps(object_) == dump(object_)

\* ------------------------------------------------------------ inputs
\* The document texts decoded (<LF> a line feed), valid and not.
\* the empty document
DocEmpty ==
    <<>>

\* "a" "1" "a" "2"
DocDuplicate ==
    <<DQ, "a", DQ, SP, DQ, "1", DQ, SP, DQ, "a", DQ, SP, DQ, "2", DQ>>

\* a 1 b 3 a 2<LF>
DocDuplicateOrder ==
    <<"a", SP, "1", SP, "b", SP, "3", SP, "a", SP, "2", LF>>

\* a 1 a { b 2 }<LF>
DocDuplicateBlock ==
    <<"a", SP, "1", SP, "a", SP, OB, SP, "b", SP, "2", SP, CB, LF>>

\* a { b 2 } a 1<LF>
DocBlockThenScalar ==
    <<"a", SP, OB, SP, "b", SP, "2", SP, CB, SP, "a", SP, "1", LF>>

\* "root" { "a" "1" "b" { "c" "2" } }
DocNested ==
    <<DQ, "r", "o", "o", "t", DQ, SP, OB, SP, DQ, "a", DQ, SP, DQ, "1", DQ,
      SP, DQ, "b", DQ, SP, OB, SP, DQ, "c", DQ, SP, DQ, "2", DQ, SP, CB,
      SP, CB>>

\* "root" { "a" "1"
DocUnbalanced ==
    <<DQ, "r", "o", "o", "t", DQ, SP, OB, SP, DQ, "a", DQ, SP, DQ, "1", DQ>>

\* "a" "1" "b"
DocDanglingKey ==
    <<DQ, "a", DQ, SP, DQ, "1", DQ, SP, DQ, "b", DQ>>

\* "a" "1
DocUnterminatedQuote ==
    <<DQ, "a", DQ, SP, DQ, "1">>

\* "a" "1\
DocIncompleteEscape ==
    <<DQ, "a", DQ, SP, DQ, "1", BS>>

\* a "\x"<LF>
DocBadEscape ==
    <<"a", SP, DQ, BS, "x", DQ, LF>>

\* a 1 }<LF>
DocUnmatchedClose ==
    <<"a", SP, "1", SP, CB, LF>>

\* }
DocCloseFirst ==
    <<CB>>

\* { a 1 }
DocOpenFirst ==
    <<OB, SP, "a", SP, "1", SP, CB>>

\* k "he said \"hi\"\n"
DocEscapes ==
    <<"k", SP, DQ, "h", "e", SP, "s", "a", "i", "d", SP, BS, DQ, "h", "i",
      BS, DQ, BS, "n", DQ>>

\* a ""<LF>
DocEmptyValue ==
    <<"a", SP, DQ, DQ, LF>>

\* a "x/y"<LF>
DocSlashValue ==
    <<"a", SP, DQ, "x", SL, "y", DQ, LF>>

\* a "\\"<LF>
DocBackslashValue ==
    <<"a", SP, DQ, BS, BS, DQ, LF>>

\* a "{"<LF>
DocBraceValue ==
    <<"a", SP, DQ, OB, DQ, LF>>

\* a "#base"<LF>
DocBaseValue ==
    <<"a", SP, DQ, "#", "b", "a", "s", "e", DQ, LF>>

\* a x\ty<LF>
DocUnquotedEscape ==
    <<"a", SP, "x", BS, "t", "y", LF>>

\* a 1 / c<LF>b 2<LF>
DocComment ==
    <<"a", SP, "1", SP, SL, SP, "c", LF, "b", SP, "2", LF>>

\* a 1
DocUnquotedEnd ==
    <<"a", SP, "1">>

\* #base "inc"<LF>"y" "2"<LF>
DocBase ==
    <<"#", "b", "a", "s", "e", SP, DQ, "i", "n", "c", DQ, LF, DQ, "y", DQ,
      SP, DQ, "2", DQ, LF>>

\* "#base" "inc"<LF>
DocBaseQuoted ==
    <<DQ, "#", "b", "a", "s", "e", DQ, SP, DQ, "i", "n", "c", DQ, LF>>

\* a 1<LF>#base "inc"<LF>b 2<LF>
DocBaseMiddle ==
    <<"a", SP, "1", LF, "#", "b", "a", "s", "e", SP, DQ, "i", "n", "c", DQ,
      LF, "b", SP, "2", LF>>

\* r {<LF>#base "inc"<LF>}<LF>
DocBaseNested ==
    <<"r", SP, OB, LF, "#", "b", "a", "s", "e", SP, DQ, "i", "n", "c", DQ,
      LF, CB, LF>>

\* #base inc<LF>
DocBaseUnquotedName ==
    <<"#", "b", "a", "s", "e", SP, "i", "n", "c", LF>>

\* #base "inc" x<LF>
DocBaseNoTerminator ==
    <<"#", "b", "a", "s", "e", SP, DQ, "i", "n", "c", DQ, SP, "x", LF>>

\* #base "zz"<LF>
DocBaseMissing ==
    <<"#", "b", "a", "s", "e", SP, DQ, "z", "z", DQ, LF>>

\* #base "out"<LF>
DocBaseOuter ==
    <<"#", "b", "a", "s", "e", SP, DQ, "o", "u", "t", DQ, LF>>

\* #base "cyc"<LF>
DocBaseCycle ==
    <<"#", "b", "a", "s", "e", SP, DQ, "c", "y", "c", DQ, LF>>

\* }<LF>#base "inc"<LF>
DocBaseAfterError ==
    <<CB, LF, "#", "b", "a", "s", "e", SP, DQ, "i", "n", "c", DQ, LF>>

\* #base "cut"<LF>2<LF>
DocBaseCut ==
    <<"#", "b", "a", "s", "e", SP, DQ, "c", "u", "t", DQ, LF, "2", LF>>

\* #base "inc"<LF>k "\t"<LF>
DocBaseEscape ==
    <<"#", "b", "a", "s", "e", SP, DQ, "i", "n", "c", DQ, LF, "k", SP, DQ, BS,
      "t", DQ, LF>>

\* a { b { c { d 1 } e 2 } f 3 }<LF>
DocDeep ==
    <<"a", SP, OB, SP, "b", SP, OB, SP, "c", SP, OB, SP, "d", SP, "1", SP,
      CB, SP, "e", SP, "2", SP, CB, SP, "f", SP, "3", SP, CB, LF>>

Texts ==
    {DocEmpty, DocDuplicate, DocDuplicateOrder,
     DocDuplicateBlock, DocBlockThenScalar, DocNested,
     DocUnbalanced, DocDanglingKey, DocUnterminatedQuote,
     DocIncompleteEscape, DocBadEscape, DocUnmatchedClose,
     DocCloseFirst, DocOpenFirst, DocEscapes,
     DocEmptyValue, DocSlashValue, DocBackslashValue,
     DocBraceValue, DocBaseValue, DocUnquotedEscape,
     DocComment, DocUnquotedEnd, DocBase,
     DocBaseQuoted, DocBaseMiddle, DocBaseNested,
     DocBaseUnquotedName, DocBaseNoTerminator, DocBaseMissing,
     DocBaseOuter, DocBaseCycle, DocBaseAfterError,
     DocBaseCut, DocBaseEscape, DocDeep}

\* The documents registered with the test transcluder, by name.
\* inc
NameInc ==
    <<"i", "n", "c">>

\* out
NameOut ==
    <<"o", "u", "t">>

\* cyc
NameCyc ==
    <<"c", "y", "c">>

\* cut
NameCut ==
    <<"c", "u", "t">>

\* "x" "1"<LF>
FragInc ==
    <<DQ, "x", DQ, SP, DQ, "1", DQ, LF>>

\* #base "inc"<LF>z 3<LF>
FragOut ==
    <<"#", "b", "a", "s", "e", SP, DQ, "i", "n", "c", DQ, LF, "z", SP, "3",
      LF>>

\* #base "cyc"<LF>
FragCyc ==
    <<"#", "b", "a", "s", "e", SP, DQ, "c", "y", "c", DQ, LF>>

\* x 1<LF>y 
FragCut ==
    <<"x", SP, "1", LF, "y", SP>>

Registry ==
    << [k |-> NameInc, v |-> FragInc],
       [k |-> NameOut, v |-> FragOut],
       [k |-> NameCyc, v |-> FragCyc],
       [k |-> NameCut, v |-> FragCut] >>

Transcluders ==
    {VDFDisabledTranscluder, VDFIgnoreTranscluder, VDFFileSystemTranscluder,
     VDFTestTranscluder(Registry)}

\* ------------------------------------------------------------ state
VARIABLES
    input,        \* the text to decode
    transcluder,  \* the transcluder the caller configured
    rest,         \* the part of input not yet fed to decoder
    decoder,      \* a VDFObjectDecoder(transcluder) the caller feeds itself
    pc,           \* how far the caller is
    call,         \* which of load / loads the caller called
    ret,          \* what load / loads gave
    dumped,       \* dumps(ret.value)
    ret2,         \* loads(dumped)
    dumped2,      \* dumps(ret2.value)
    cuts,         \* what the tokenizer was in the middle of where a chunk ended
    calls,        \* the decoder methods load has called, in order
    registered,   \* name -> the document of its last register still in force
    last          \* the last call made on the test transcluder

\* what only the registry and the steps of load change
aux == <<calls, registered, last>>

vars ==
    <<input, transcluder, rest, decoder, pc, call, ret, dumped, ret2, dumped2,
      cuts, calls, registered, last>>

\* the names and documents given to the test transcluder
NameIn == <<"i", "n">>

Names == {NameInc, NameIn, NameOut}

Documents == {FragInc, FragOut}

\* no document
NoDocument == <<"NoDocument">>

NoCall ==
    [op |-> "none", name |-> <<>>, exc |-> NoError, frags |-> <<>>,
     before |-> <<>>, was |-> NoDocument]

NotCalled == [exc |-> "NotCalled", value |-> <<>>]

\* the part of input fed so far
Fed == SubSeq(input, 1, Len(input) - Len(rest))

Init ==
    /\ input \in Texts
    /\ transcluder \in Transcluders
    /\ rest = input
    /\ decoder = VDFObjectDecoder(transcluder)
    /\ pc = "new"
    /\ call = "none"
    /\ ret = NotCalled
    /\ dumped = <<>>
    /\ ret2 = NotCalled
    /\ dumped2 = <<>>
    /\ cuts = {}
    /\ calls = <<>>
    /\ registered = [n \in Names |-> NoDocument]
    /\ last = NoCall

\* where a chunk boundary falls: the tokenizer's mode, and whether a #base
\* directive is under way
CutLabels(self) ==
    {self.lex} \cup (IF self.dir # "none" THEN {"directive"} ELSE {})

\* decoder.feed(chunk), chunk the next n characters of the input
Feed(n) ==
    /\ pc \in {"new", "feeding"}
    /\ n \in 1..Len(rest)
    /\ decoder' = feed(decoder, SubSeq(rest, 1, n))
    /\ rest' = SubSeq(rest, n + 1, Len(rest))
    /\ pc' = "feeding"
    /\ cuts' = IF n < Len(rest) /\ decoder'.err = NoError
               THEN cuts \cup CutLabels(decoder')
               ELSE cuts
    /\ UNCHANGED <<input, transcluder, call, ret, dumped, ret2, dumped2>>
    /\ UNCHANGED aux

\* decoder.complete(), after what has been fed so far
Complete ==
    /\ pc \in {"new", "feeding"}
    /\ decoder' = complete(decoder)
    /\ pc' = "completed"
    /\ UNCHANGED <<input, transcluder, rest, call, ret, dumped, ret2, dumped2, cuts>>
    /\ UNCHANGED aux

\* decoder.feed(chunk) on a decoder whose feed or complete has failed and
\* was completed
FeedFailed(n) ==
    /\ pc \in {"completed", "failed"}
    /\ decoder.err # NoError
    /\ n \in 1..Len(rest)
    /\ decoder' = feed(decoder, SubSeq(rest, 1, n))
    /\ rest' = SubSeq(rest, n + 1, Len(rest))
    /\ pc' = "failed"
    /\ UNCHANGED <<input, transcluder, call, ret, dumped, ret2, dumped2, cuts>>
    /\ UNCHANGED aux

\* decoder.complete() once more on such a decoder
CompleteFailed ==
    /\ pc \in {"completed", "failed"}
    /\ decoder.err # NoError
    /\ decoder' = complete(decoder)
    /\ pc' = "failed"
    /\ UNCHANGED <<input, transcluder, rest, call, ret, dumped, ret2, dumped2, cuts>>
    /\ UNCHANGED aux

\* load(io.StringIO(input), transcluder)
CallLoad ==
    /\ pc = "new"
    /\ ret' = load(input, transcluder)
    /\ call' = "load"
    /\ pc' = "loaded"
    /\ UNCHANGED <<input, transcluder, rest, decoder, dumped, ret2, dumped2, cuts>>
    /\ UNCHANGED aux

\* loads(input, transcluder)
CallLoads ==
    /\ pc = "new"
    /\ ret' = loads(input, transcluder)
    /\ call' = "loads"
    /\ pc' = "loaded"
    /\ UNCHANGED <<input, transcluder, rest, decoder, dumped, ret2, dumped2, cuts>>
    /\ UNCHANGED aux

\* dumps(d) of the document d just loaded
CallDumps ==
    /\ pc = "loaded"
    /\ ret.exc = NoError
    /\ dumped' = dumps(ret.value)
    /\ pc' = "dumped"
    /\ UNCHANGED <<input, transcluder, rest, decoder, call, ret, ret2, dumped2, cuts>>
    /\ UNCHANGED aux

\* loads(dumps(d))
CallReload ==
    /\ pc = "dumped"
    /\ ret2' = loads(dumped, transcluder)
    /\ pc' = "reloaded"
    /\ UNCHANGED <<input, transcluder, rest, decoder, call, ret, dumped, dumped2, cuts>>
    /\ UNCHANGED aux

\* dumps(loads(dumps(d)))
CallRedump ==
    /\ pc = "reloaded"
    /\ ret2.exc = NoError
    /\ dumped2' = dumps(ret2.value)
    /\ pc' = "redumped"
    /\ UNCHANGED <<input, transcluder, rest, decoder, call, ret, dumped, ret2, cuts>>
    /\ UNCHANGED aux

Next ==
    \/ \E n \in 1..Len(rest) : Feed(n)
    \/ Complete
    \/ \E n \in 1..Len(rest) : FeedFailed(n)
    \/ CompleteFailed
    \/ CallLoad
    \/ CallLoads
    \/ CallDumps
    \/ CallReload
    \/ CallRedump

Spec == Init /\ [][Next]_vars

\* ------------------------------------------------------------ load, stepwise
\* load and loads, one statement at a time: pc is the statement to run
\* next, decoder the one of the with block, rest what is left to read,
\* calls the decoder methods called so far.
LoadInit ==
    /\ input \in Texts
    /\ transcluder \in Transcluders
    /\ call \in {"load", "loads"}
    /\ rest = input
    /\ decoder = VDFObjectDecoder(VDFDisabledTranscluder)
    /\ pc = "with"
    /\ ret = NotCalled
    /\ dumped = <<>>
    /\ ret2 = NotCalled
    /\ dumped2 = <<>>
    /\ cuts = {}
    /\ calls = <<>>
    /\ registered = [n \in Names |-> NoDocument]
    /\ last = NoCall

LoadFixed ==
    UNCHANGED <<input, transcluder, call, dumped, ret2, dumped2, cuts,
                registered, last>>

\* with VDFObjectDecoder(transcluder) as decoder; loads calls load without
\* its transcluder
LoadWith ==
    /\ pc = "with"
    /\ decoder' = VDFDecoder_enter(VDFObjectDecoder(
                       IF call = "loads" THEN VDFDisabledTranscluder
                       ELSE transcluder))
    /\ pc' = "read"
    /\ UNCHANGED <<rest, ret, calls>>
    /\ LoadFixed

\* chunk = readable.read(4096); decoder.feed(chunk)
LoadFeed ==
    /\ pc = "read"
    /\ rest # <<>>
    /\ LET n == Min(ReadSize, Len(rest))
       IN  /\ decoder' = feed(decoder, SubSeq(rest, 1, n))
           /\ rest' = SubSeq(rest, n + 1, Len(rest))
    /\ calls' = Append(calls, "feed")
    /\ pc' = IF decoder'.err # NoError THEN "exit" ELSE "read"
    /\ UNCHANGED ret
    /\ LoadFixed

\* readable.read(4096) gives '': the loop ends
LoadEnd ==
    /\ pc = "read"
    /\ rest = <<>>
    /\ pc' = "exit"
    /\ UNCHANGED <<decoder, rest, ret, calls>>
    /\ LoadFixed

\* the with block is left: decoder.__exit__
LoadExit ==
    /\ pc = "exit"
    /\ decoder' = VDFDecoder_exit(decoder)
    /\ calls' = IF decoder' # decoder THEN Append(calls, "complete") ELSE calls
    /\ pc' = IF decoder'.err # NoError THEN "raise" ELSE "return"
    /\ UNCHANGED <<rest, ret>>
    /\ LoadFixed

\* return decoder.object
LoadReturn ==
    /\ pc = "return"
    /\ ret' = Returns(Tree(decoder.heap, decoder.object))
    /\ pc' = "loaded"
    /\ UNCHANGED <<decoder, rest, calls>>
    /\ LoadFixed

\* the exception of feed or complete leaves load
LoadRaise ==
    /\ pc = "raise"
    /\ ret' = Raised(decoder.err)
    /\ pc' = "loaded"
    /\ UNCHANGED <<decoder, rest, calls>>
    /\ LoadFixed

LoadNext ==
    \/ LoadWith
    \/ LoadFeed
    \/ LoadEnd
    \/ LoadExit
    \/ LoadReturn
    \/ LoadRaise

LoadSpec == LoadInit /\ [][LoadNext]_vars

\* ------------------------------------------------------------ registry
\* A VDFTestTranscluder on its own: register, unregister and transclude
\* called in any order.
RegistryInit ==
    /\ input = DocEmpty
    /\ transcluder = VDFTestTranscluder(<<>>)
    /\ rest = <<>>
    /\ decoder = VDFObjectDecoder(VDFTestTranscluder(<<>>))
    /\ pc = "registry"
    /\ call = "none"
    /\ ret = NotCalled
    /\ dumped = <<>>
    /\ ret2 = NotCalled
    /\ dumped2 = <<>>
    /\ cuts = {}
    /\ calls = <<>>
    /\ registered = [n \in Names |-> NoDocument]
    /\ last = NoCall

RegistryFixed ==
    UNCHANGED <<input, rest, decoder, pc, call, ret, dumped, ret2, dumped2,
                cuts, calls>>

\* transcluder.register(name, document)
Register(name, document) ==
    LET r == VDFTestTranscluder_register(transcluder, name, document)
    IN  /\ transcluder' = r.self
        /\ registered' = IF r.exc = NoError
                          THEN [registered EXCEPT ![name] = document]
                          ELSE registered
        /\ last' = [op |-> "register", name |-> name, exc |-> r.exc,
                    frags |-> <<>>, before |-> transcluder._documents,
                    was |-> registered[name]]
        /\ RegistryFixed

\* transcluder.unregister(name)
Unregister(name) ==
    LET r == VDFTestTranscluder_unregister(transcluder, name)
    IN  /\ transcluder' = r.self
        /\ registered' = IF r.exc = NoError
                          THEN [registered EXCEPT ![name] = NoDocument]
                          ELSE registered
        /\ last' = [op |-> "unregister", name |-> name, exc |-> r.exc,
                    frags |-> <<>>, before |-> transcluder._documents,
                    was |-> registered[name]]
        /\ RegistryFixed

\* list(transcluder.transclude(name))
Transclude(name) ==
    LET r == transclude(transcluder, name)
    IN  /\ last' = [op |-> "transclude", name |-> name, exc |-> r.exc,
                    frags |-> r.frags, before |-> transcluder._documents,
                    was |-> registered[name]]
        /\ UNCHANGED <<transcluder, registered>>
        /\ RegistryFixed

RegistryNext ==
    \/ \E name \in Names, document \in Documents : Register(name, document)
    \/ \E name \in Names : Unregister(name)
    \/ \E name \in Names : Transclude(name)

RegistrySpec == RegistryInit /\ [][RegistryNext]_vars

\* ------------------------------------------------------------ properties
Count(events, kind) ==
    Cardinality({i \in 1..Len(events) : events[i][1] = kind})

Document(self) == Tree(self.heap, self.object)

\* C1: chunk-boundary independence.  Whatever chunks the text fed so far
\* was fed in, if feeding it as one chunk and completing gives a document,
\* then completing here gives the same document and the same sequence of
\* on_key / on_value / on_object_enter / on_object_exit calls.
C1_ChunkIndependence ==
    pc = "completed" =>
        LET one == complete(feed(VDFObjectDecoder(transcluder), Fed))
        IN  one.err = NoError =>
                /\ decoder.err = NoError
                /\ Document(decoder) = Document(one)
                /\ decoder.events = one.events

\* a document decoded from chunks that ended inside a token, inside a #base
\* directive and inside an escape sequence
C1_Witness ==
    /\ pc = "completed"
    /\ decoder.err = NoError
    /\ decoder.events # <<>>
    /\ {"unquoted", "directive", "quoted_escape"} \subseteq cuts

\* C2: complete() succeeds only in state ExpectKeyOrClose, with the root
\* alone on the stack and no token or directive half read; then every block
\* entered has been left and every key has had its value or its block.  An
\* unterminated block, a dangling key, an unterminated quoted token and an
\* incomplete escape sequence all end in a format error.
C2_CompleteOnlyWhenClosed ==
    pc = "completed" =>
        /\ decoder.completed <=> decoder.err = NoError
        /\ decoder.completed =>
              /\ decoder.state = ExpectKeyOrClose
              /\ Len(decoder._stack) = 1
              /\ decoder.lex = "idle"
              /\ decoder.dir = "none"
              /\ Count(decoder.events, "enter") = Count(decoder.events, "exit")
              /\ Count(decoder.events, "key") =
                    Count(decoder.events, "value") + Count(decoder.events, "enter")
        /\ ( /\ rest = <<>>
             /\ input \in {DocUnbalanced, DocDanglingKey, DocUnterminatedQuote,
                           DocIncompleteEscape} )
           => decoder.err = VDFError

\* complete() has failed on the block that is never closed
C2_Witness ==
    /\ pc = "completed"
    /\ input = DocUnbalanced
    /\ rest = <<>>
    /\ Len(decoder._stack) = 2
    /\ decoder.err = VDFError

\* C3: a close brace pops the top of the stack, so the stack is always one
\* deeper than the blocks entered and not left, and its bottom entry is the
\* root; a close brace met with only the root on the stack is a format
\* error and leaves the root where it is.
C3_CloseBraceGuard ==
    /\ Len(decoder._stack) =
          1 + Count(decoder.events, "enter") - Count(decoder.events, "exit")
    /\ Len(decoder._stack) >= 1
    /\ decoder._stack[1] = decoder.object
    /\ ( /\ rest = <<>>
         /\ input \in {DocCloseFirst, DocUnmatchedClose, DocBaseAfterError} )
       => /\ decoder.err = VDFError
          /\ decoder._stack = <<decoder.object>>

\* the close brace with nothing to close has been read
C3_Witness ==
    /\ input = DocUnmatchedClose
    /\ rest = <<>>
    /\ decoder.events # <<>>
    /\ decoder.err = VDFError
    /\ decoder._stack = <<decoder.object>>

\* the decoder after text has been fed to a new decoder and completed
Decode(text, t) == complete(feed(VDFObjectDecoder(t), text))

\* what a call that runs decoder d to its end gives
Outcome(d) == IF d.err # NoError THEN Raised(d.err) ELSE Returns(Document(d))

\* the text has a #base directive the parser gets to: with a transcluder
\* that never fails, the decode resolves one
ContainsDirective(text) ==
    feed(VDFObjectDecoder(VDFIgnoreTranscluder), text).transclusions > 0

C5_ConfiguredTranscluder ==
    pc = "loaded" => ret = Outcome(Decode(input, transcluder))

\* the line of a directive naming name, #base unquoted and quoted
DirectiveLine(name) == BASE \o <<SP, DQ>> \o name \o <<DQ, LF>>

QuotedDirectiveLine(name) == <<DQ>> \o BASE \o <<DQ, SP, DQ>> \o name \o <<DQ, LF>>

\* between tokens, where a key may come
ReadyForKey(self) ==
    /\ self.err = NoError
    /\ self.lex = "idle"
    /\ self.dir = "none"
    /\ self.state = ExpectKeyOrClose

UniqueKeys(m) == \A i, j \in 1..Len(m) : m[i].k = m[j].k => i = j

\* the keys of the root object that have had their value or block, each
\* where it was first parsed
RECURSIVE RootKeys(_, _, _)
RootKeys(events, depth, keys) ==
    IF events = <<>> THEN keys
    ELSE LET e == Head(events)
         IN  CASE e[1] = "enter" -> RootKeys(Tail(events), depth + 1, keys)
               [] e[1] = "exit" -> RootKeys(Tail(events), depth - 1, keys)
               [] e[1] = "key" /\ depth = 0 /\ Len(events) > 1
                               /\ \A i \in 1..Len(keys) : keys[i] # e[2] ->
                      RootKeys(Tail(events), depth, Append(keys, e[2]))
               [] OTHER -> RootKeys(Tail(events), depth, keys)

\* the entry the last write made, when the last two events are a key and
\* its value or its block
LastWritten(self) ==
    LET n == Len(self.events)
        depth == Len(self._stack)
    IN  IF n < 2 \/ self.events[n - 1][1] # "key" THEN TRUE
        ELSE IF self.events[n][1] = "value"
        THEN LET m == self.heap[self._stack[depth]]
             IN  /\ HasKey(m, self.events[n - 1][2])
                 /\ m[IndexOf(m, self.events[n - 1][2])].v = Scalar(self.events[n][2])
        ELSE LET m == self.heap[self._stack[depth - 1]]
             IN  /\ HasKey(m, self.events[n - 1][2])
                 /\ m[IndexOf(m, self.events[n - 1][2])].v = Object(self._stack[depth])

\* C7: a key parsed again in the same object overwrites: no object ever
\* holds a key twice, the entry under a key is the value or block parsed
\* last, and the keys stay in the order in which each was first parsed.
C7_LastWriteWins ==
    /\ \A r \in 1..Len(decoder.heap) : UniqueKeys(decoder.heap[r])
    /\ LastWritten(decoder)
    /\ [i \in 1..Len(decoder.heap[decoder.object]) |->
            decoder.heap[decoder.object][i].k] = RootKeys(decoder.events, 0, <<>>)
    /\ (input = DocDuplicate /\ rest = <<>> /\ decoder.err = NoError)
       => Document(decoder) = << ScalarEntry(<<"a">>, <<"2">>) >>

\* a 1, b 3, a 2: a is still first and now 2
C7_Witness ==
    /\ input = DocDuplicateOrder
    /\ rest = <<>>
    /\ pc = "completed"
    /\ Document(decoder) = << ScalarEntry(<<"a">>, <<"2">>),
                              ScalarEntry(<<"b">>, <<"3">>) >>

\* entry k of a mapping, the overwrite rule of the data model
WithEntry(m, e) ==
    IF HasKey(m, e.k) THEN [m EXCEPT ![IndexOf(m, e.k)] = e] ELSE Append(m, e)

\* the mapping a sequence of events denotes: each pair an entry of the
\* object of the innermost block around it, each block an entry under its
\* key in the object around it.  Gives the object and the events after the
\* exit that closes it.
RECURSIVE Nested(_, _)
Nested(events, object_) ==
    IF events = <<>> THEN [object |-> object_, rest |-> <<>>]
    ELSE IF Head(events)[1] = "exit"
    THEN [object |-> object_, rest |-> Tail(events)]
    ELSE IF Len(events) < 2 THEN [object |-> object_, rest |-> <<>>]
    ELSE IF events[2][1] = "value"
    THEN Nested(Tail(Tail(events)),
                WithEntry(object_, ScalarEntry(events[1][2], events[2][2])))
    ELSE LET inner == Nested(Tail(Tail(events)), <<>>)
         IN  Nested(inner.rest,
                    WithEntry(object_, ObjectEntry(events[1][2], inner.object)))

\* "root" { "a" "1" "b" { "c" "2" } }
NestedExpected ==
    << ObjectEntry(<<"r", "o", "o", "t">>,
          << ScalarEntry(<<"a">>, <<"1">>),
             ObjectEntry(<<"b">>, << ScalarEntry(<<"c">>, <<"2">>) >>) >>) >>

\* C8: the object built is the nested mapping of the pairs and blocks
\* parsed; load and loads return it, and for the text
\* "root" { "a" "1" "b" { "c" "2" } } it is {root: {a: 1, b: {c: 2}}}.
C8_Nesting ==
    /\ Document(decoder) = Nested(decoder.events, <<>>).object
    /\ (pc = "loaded" /\ ret.exc = NoError)
       => ret.value = Nested(Decode(input, transcluder).events, <<>>).object
    /\ (pc = "loaded" /\ input = DocNested) => ret = Returns(NestedExpected)

\* loads has returned {root: {a: 1, b: {c: 2}}}
C8_Witness ==
    /\ pc = "loaded"
    /\ call = "loads"
    /\ input = DocNested
    /\ ret = Returns(NestedExpected)

\* C9: loads(dumps(d)) is d, for every d that load or loads returned.
C9_RoundTrip ==
    pc = "reloaded" => ret2 = Returns(ret.value)

\* C10: dumps(loads(dumps(d))) is dumps(d), character for character.
C10_IdempotentReencode ==
    pc = "redumped" => dumped2 = dumped

\* C11: register(name, document) raises LookupError exactly when name is
\* registered, unregister(name) exactly when it is not, and a call that
\* raises leaves _documents as it was; a call that succeeds leaves name
\* with the document, or without one.
C11_RegistrationErrors ==
    /\ last.op = "register" =>
          /\ (last.exc = "LookupError") <=> (last.was # NoDocument)
          /\ last.exc \in {NoError, "LookupError"}
          /\ last.exc = "LookupError" => transcluder._documents = last.before
    /\ last.op = "unregister" =>
          /\ (last.exc = "LookupError") <=> (last.was = NoDocument)
          /\ last.exc \in {NoError, "LookupError"}
          /\ last.exc = "LookupError" => transcluder._documents = last.before
    /\ \A n \in Names :
          HasKey(transcluder._documents, n) <=> registered[n] # NoDocument

\* a register of a name that is taken, with another document, has failed
C11_Witness ==
    /\ last.op = "register"
    /\ last.exc = "LookupError"
    /\ last.name = NameInc
    /\ registered[NameInc] = FragInc
    /\ HasKey(transcluder._documents, NameOut)

\* C12: transclude(name) gives one fragment, the document of the last
\* register of exactly that name that succeeded and was not undone by an
\* unregister since; for any other name it raises VDFTransclusionError.
C12_RegistryLookup ==
    /\ \A n \in Names :
          transclude(transcluder, n) =
              IF registered[n] = NoDocument
              THEN Raises(VDFTransclusionError)
              ELSE Fragments(<< registered[n] >>)
    /\ last.op = "transclude" =>
          IF last.was = NoDocument
          THEN last.exc = VDFTransclusionError /\ last.frags = <<>>
          ELSE last.exc = NoError /\ last.frags = << last.was >>

\* "in" is looked up and is not there, while "inc" is
C12_Witness ==
    /\ last.op = "transclude"
    /\ last.name = NameIn
    /\ last.exc = VDFTransclusionError
    /\ registered[NameInc] = FragOut
    /\ registered[NameOut] = NoDocument
    /\ HasKey(last.before, NameInc)

\* the names the sample texts put in their directives
NameMissing == <<"z", "z">>

DirectiveNames == Names \cup {NameCyc, NameCut, NameMissing}

C14_ErrorIsTerminal ==
    [][decoder.err # NoError =>
          /\ decoder'.err # NoError
          /\ ~decoder'.completed
          /\ decoder'.events = decoder.events
          /\ Document(decoder') = Document(decoder)]_vars

\* the directive of a 1, #base "inc", b 2 has failed with the disabled
\* transcluder; complete and a feed of the rest have been called since
C14_Witness ==
    /\ pc = "failed"
    /\ input = DocBaseMiddle
    /\ transcluder = VDFDisabledTranscluder
    /\ rest = <<>>
    /\ decoder.err = VDFTransclusionError
    /\ decoder.events = << <<"key", <<"a">>>>, <<"value", <<"1">>>> >>

\* how many times load has called complete
Completes == Cardinality({i \in 1..Len(calls) : calls[i] = "complete"})

LastEvent(self) ==
    IF self.events = <<>> THEN <<"none">> ELSE self.events[Len(self.events)]

\* C16: _key is set exactly while a key has been parsed and neither its
\* value nor its opening brace has been handled, and it is that key;
\* on_value and on_object_enter clear it, so it is None whenever the
\* parser is in ExpectKeyOrClose.
C16_PendingKey ==
    /\ (decoder._key # None) <=> (LastEvent(decoder)[1] = "key")
    /\ LastEvent(decoder)[1] = "key" => decoder._key = LastEvent(decoder)[2]
    /\ decoder.state = ExpectKeyOrClose => decoder._key = None
    /\ decoder.state = ExpectValueOrBlock => decoder._key # None

\* a value, then a key whose value has not come yet
C16_Witness ==
    /\ Len(decoder.events) = 3
    /\ decoder.events[2][1] = "value"
    /\ decoder.events[3] = <<"key", <<"b">>>>
    /\ decoder._key = <<"b">>
    /\ decoder.state = ExpectValueOrBlock

\* the blocks opened and not yet closed
RECURSIVE NestingDepth(_)
NestingDepth(events) ==
    IF events = <<>> THEN 0
    ELSE LET e == events[Len(events)]
             before == NestingDepth(SubSeq(events, 1, Len(events) - 1))
         IN  CASE e[1] = "enter" -> before + 1
               [] e[1] = "exit" -> before - 1
               [] OTHER -> before

\* C17: the stack is one deeper than the nesting depth (the blocks opened
\* and not yet closed): the root is its bottom entry and stays there, one
\* entry per open block lies above it, and it is never empty.
C17_StackDepth ==
    /\ Len(decoder._stack) = NestingDepth(decoder.events) + 1
    /\ Len(decoder._stack) > 0
    /\ decoder._stack[1] = decoder.object
    /\ \A i, j \in 1..Len(decoder._stack) :
          decoder._stack[i] = decoder._stack[j] => i = j

\* C17 as stated: the stack is as deep as the nesting depth
C17_StackDepthAsStated ==
    /\ Len(decoder._stack) = NestingDepth(decoder.events)
    /\ Len(decoder._stack) > 0
    /\ decoder._stack[1] = decoder.object

\* two blocks are open
C17_Witness ==
    /\ NestingDepth(decoder.events) = 2
    /\ Len(decoder._stack) = 3
    /\ decoder._stack[1] = decoder.object
    /\ decoder.err = NoError

\* C18: every value event and every enter event comes right after one
\* key event; what comes next after a key event is a value or an enter
\* event; and after either of those the parser is in ExpectKeyOrClose.
C18_EventProtocol ==
    LET events == decoder.events
    IN  /\ \A i \in 1..Len(events) :
              events[i][1] \in {"value", "enter"} =>
                  /\ i > 1
                  /\ events[i - 1][1] = "key"
                  /\ i > 2 => events[i - 2][1] # "key"
        /\ \A i \in 1..(Len(events) - 1) :
              events[i][1] = "key" => events[i + 1][1] \in {"value", "enter"}
        /\ LastEvent(decoder)[1] \in {"value", "enter"} =>
              decoder.state = ExpectKeyOrClose
        /\ LastEvent(decoder)[1] = "key" => decoder.state = ExpectValueOrBlock

\* a key and its block, then a key and its value inside
C18_Witness ==
    /\ Len(decoder.events) = 4
    /\ decoder.events[1][1] = "key"
    /\ decoder.events[2] = <<"enter">>
    /\ decoder.events[3][1] = "key"
    /\ decoder.events[4][1] = "value"
    /\ decoder.state = ExpectKeyOrClose

\* C19: a document whose directives form a cycle ends, after a bounded
\* number of transclusions, in VDFTransclusionError; no decode goes on
\* resolving directives without end.
C19_CyclesEnd ==
    /\ decoder.err # Unbounded
    /\ ( /\ input = DocBaseCycle
         /\ rest = <<>>
         /\ pc \in {"feeding", "completed"}
         /\ transcluder = VDFTestTranscluder(Registry) )
       => decoder.err = VDFTransclusionError

\* is the object at ref stored as a value in the object at parent
StoredIn(self, parent, ref) ==
    \E e \in 1..Len(self.heap[parent]) : self.heap[parent][e].v = Object(ref)

\* C20: the stack is a path of the document: its bottom entry is
\* decoder.object and every entry above is the object now stored as a
\* value in the entry below it, so what on_value and on_object_enter
\* write into the top of the stack is in the document load returns.
C20_StackIsPath ==
    /\ Len(decoder._stack) > 0 => decoder._stack[1] = decoder.object
    /\ \A i \in 2..Len(decoder._stack) :
          StoredIn(decoder, decoder._stack[i - 1], decoder._stack[i])
    /\ \A i \in 1..Len(decoder._stack) :
          decoder._stack[i] \in 1..Len(decoder.heap)

\* a value has been written three blocks deep
C20_Witness ==
    /\ Len(decoder._stack) = 4
    /\ LastEvent(decoder)[1] = "value"
    /\ decoder.heap[decoder._stack[4]] # <<>>
    /\ StoredIn(decoder, decoder._stack[3], decoder._stack[4])
    /\ decoder.err = NoError

====
